---- MODULE Spec2Model ----
(***************************************************************************)
(* TensorMap (src/src/tensor/mod.rs): the keys table with its parallel     *)
(* list of blocks, the validating constructor, the partial-key block       *)
(* matcher and the in-place components_to_properties.                      *)
(*                                                                         *)
(* A Labels value is a record [names, rows]: the ordered column names and  *)
(* the ordered rows, each row a tuple of integers of the same arity.       *)
(* Vec indices are kept 0-based as in the source: element i of a Vec is    *)
(* element i + 1 of the sequence that models it.                           *)
(***************************************************************************)
EXTENDS Integers, Sequences, FiniteSets, TLC

VARIABLES
    pc,         \* "start", "built", "failed" or "panicked"
    args,       \* the keys and blocks given to TensorMap::new
    query,      \* the Labels the caller passes to block and blocks_matching
    keys,       \* TensorMap.keys
    blocks,     \* TensorMap.blocks
    call,       \* the last call and its argument
    result,     \* what the last call returned
    moves       \* the blocks the last call invoked the block-level move on

vars == <<pc, args, query, keys, blocks, call, result, moves>>

(***************************************************************************)
(* Bounds of the model.                                                    *)
(***************************************************************************)
MaxBlocks == 3   \* blocks given to the constructor, validation runs
MaxKeys == 2     \* rows of the keys, selection runs
MaxValue == 1    \* the key and selection values are 0 .. MaxValue

(***************************************************************************)
(* Labels: names(), size(), count(), row indexing, iteration.              *)
(***************************************************************************)
LabelsNames(labels) == labels.names

LabelsSize(labels) == Len(labels.names)

LabelsCount(labels) == Len(labels.rows)

LabelsIter(labels) == labels.rows

\* labels[i]: the row at 0-based position i; there is no such row when
\* i >= count(), and the indexing panics.
LabelsIndexPanics(labels, i) == i >= LabelsCount(labels)

LabelsIndex(labels, i) == labels.rows[i + 1]

\* example_labels of the tests: one column, rows 0 .. count - 1
example_labels(name, count) ==
    [names |-> <<name>>, rows |-> [i \in 1..count |-> <<i - 1>>]]

EmptyLabels == [names |-> <<>>, rows |-> <<>>]

(***************************************************************************)
(* Result<T, Error>.  An error is Error::InvalidParameter with the         *)
(* arguments of its format string kept apart, in the order of the format:  *)
(* kind names the message, names holds the name lists, counts the numbers, *)
(* context the trailing context of the message.                            *)
(***************************************************************************)
Ok(value) == [status |-> "Ok", value |-> value]

InvalidParameter(kind, names, counts, context) ==
    [status |-> "Err", variant |-> "InvalidParameter", kind |-> kind,
     names |-> names, counts |-> counts, context |-> context]

IsOk(r) == r.status = "Ok"

IsErr(r) == r.status = "Err"

(***************************************************************************)
(* check_labels_names                                                      *)
(***************************************************************************)
\* the format! of a name mismatch: "got [{}] and [{}]{}", the names of the
\* current block first, the expected ones second
NamesMismatchSwapped(kind, got, expected, context) ==
    InvalidParameter(kind, <<expected, got>>, <<>>, context)

NamesMismatch(kind, got, expected, context) ==
    InvalidParameter(kind, <<got, expected>>, <<>>, context)

\* first position of the component loop whose names differ from the
\* expected ones, 0 when there is none
ComponentNamesUnchecked(block, components_names) == 0

FirstComponentMismatch(block, components_names) ==
    LET bad == {i \in 1..Len(block.components) :
                    LabelsNames(block.components[i]) /= components_names[i]}
    IN  IF bad = {} THEN 0
        ELSE CHOOSE i \in bad : \A j \in bad : i <= j

check_labels_names(block, sample_names, components_names, context) ==
    IF LabelsNames(block.samples) /= sample_names
    THEN NamesMismatch("sample_names", LabelsNames(block.samples),
                       sample_names, context)
    ELSE IF Len(block.components) /= Len(components_names)
    THEN InvalidParameter("components_count", <<>>,
             <<Len(block.components), Len(components_names)>>, context)
    ELSE LET i == FirstComponentMismatch(block, components_names)
         IN  IF i /= 0
             THEN NamesMismatch("component_names",
                      LabelsNames(block.components[i]), components_names[i],
                      context)
             ELSE Ok(<<>>)

(***************************************************************************)
(* TensorMap::new                                                          *)
(***************************************************************************)
BlocksCountBySize(ks, bs) == Len(bs) /= LabelsSize(ks)

BlocksCountUnchecked(ks, bs) == FALSE

\* blocks.len() != keys.count()
BlocksCountDiffers(ks, bs) == Len(bs) /= LabelsCount(ks)

ComponentsNames(basic) ==
    [i \in 1..Len(basic.components) |-> LabelsNames(basic.components[i])]

\* gradients_data: parameter -> (sample names, components names) of block 0
GradientsData(first) ==
    [p \in DOMAIN first.gradients |->
        <<LabelsNames(first.gradients[p].samples),
          ComponentsNames(first.gradients[p])>>]

GradientsCountUnchecked(block, gradients_data) == FALSE

\* block.gradients().len() != gradients_data.len()
GradientsCountDiffers(block, gradients_data) ==
    Cardinality(DOMAIN block.gradients) /= Cardinality(DOMAIN gradients_data)

\* the body of `match gradients_data.get(parameter)` for one gradient
CheckGradient(block, parameter, gradients_data) ==
    IF parameter \notin DOMAIN gradients_data
    THEN InvalidParameter("missing_gradient", <<<<parameter>>>>, <<>>, <<>>)
    ELSE check_labels_names(block.gradients[parameter],
             gradients_data[parameter][1], gradients_data[parameter][2],
             <<"for gradients with respect to", parameter>>)

\* The results one pass of the loop body can end with.  The gradients of a
\* block are visited in the iteration order of a map, which is unspecified:
\* any gradient that fails its check can be the first one visited.
CheckBlock(block, first) ==
    LET values == check_labels_names(block.values,
                      LabelsNames(first.values.samples),
                      ComponentsNames(first.values), <<>>)
        gradients_data == GradientsData(first)
        failing == {p \in DOMAIN block.gradients :
                        IsErr(CheckGradient(block, p, gradients_data))}
    IN  IF IsErr(values) THEN {values}
        ELSE IF LabelsNames(block.values.properties)
                    /= LabelsNames(first.values.properties)
        THEN {NamesMismatch("property_names",
                  LabelsNames(block.values.properties),
                  LabelsNames(first.values.properties), <<>>)}
        ELSE IF GradientsCountDiffers(block, gradients_data)
        THEN {InvalidParameter("gradients_count", <<>>, <<>>, <<>>)}
        ELSE IF failing /= {}
        THEN {CheckGradient(block, p, gradients_data) : p \in failing}
        ELSE {Ok(<<>>)}

\* `for block in &blocks`, from 0-based position i on: the errors the loop
\* can return, {} when it runs to its end
CheckBlocksLast(bs, i) ==
    LET bad == {k \in i..(Len(bs) - 1) :
                    \E r \in CheckBlock(bs[k + 1], bs[1]) : IsErr(r)}
    IN  IF bad = {} THEN {}
        ELSE CheckBlock(bs[(CHOOSE k \in bad : \A j \in bad : k >= j) + 1], bs[1])

RECURSIVE CheckBlocksFrom(_, _)
CheckBlocksFrom(bs, i) ==
    IF i >= Len(bs) THEN {}
    ELSE LET here == CheckBlock(bs[i + 1], bs[1])
         IN  IF \A r \in here : IsOk(r) THEN CheckBlocksFrom(bs, i + 1)
             ELSE here

\* the results the constructor can return
new(ks, bs) ==
    IF BlocksCountDiffers(ks, bs)
    THEN {InvalidParameter("blocks_count", <<>>,
              <<LabelsCount(ks), Len(bs)>>, <<>>)}
    ELSE LET errors == IF bs /= <<>> THEN CheckBlocksFrom(bs, 0) ELSE {}
         IN  IF errors /= {} THEN errors
             ELSE {Ok([keys |-> ks, blocks |-> bs])}

(***************************************************************************)
(* TensorMap::iter: the key rows zipped with the blocks                    *)
(***************************************************************************)
Min(a, b) == IF a <= b THEN a ELSE b

iter(ks, bs) ==
    [i \in 1..Min(LabelsCount(ks), Len(bs)) |-> <<LabelsIter(ks)[i], bs[i]>>]

(***************************************************************************)
(* TensorMap::find_matching_blocks                                         *)
(***************************************************************************)
\* the inner loop over self.keys.names(): the 0-based position of the first
\* key column called `requested`, -1 when the loop ends without one
KeyColumn(ks, requested) ==
    LET found == {i \in 1..LabelsSize(ks) : LabelsNames(ks)[i] = requested}
    IN  IF found = {} THEN -1
        ELSE (CHOOSE i \in found : \A j \in found : i <= j) - 1

\* the 'outer loop: the first requested name without a key column, 0 if none
LastUnknown(ks, selection) ==
    LET bad == {j \in 1..LabelsSize(selection) :
                    KeyColumn(ks, LabelsNames(selection)[j]) = -1}
    IN  IF bad = {} THEN 0
        ELSE CHOOSE j \in bad : \A k \in bad : j >= k

FirstUnknown(ks, selection) ==
    LET bad == {j \in 1..LabelsSize(selection) :
                    KeyColumn(ks, LabelsNames(selection)[j]) = -1}
    IN  IF bad = {} THEN 0
        ELSE CHOOSE j \in bad : \A k \in bad : j <= k

\* variables.iter().zip(selection): every pair agrees with the key row
SelectedByPosition(labels, variables, selection_row) ==
    \A j \in 1..Min(Len(variables), Len(selection_row)) :
        labels[j] = selection_row[j]

Selected(labels, variables, selection_row) ==
    \A j \in 1..Min(Len(variables), Len(selection_row)) :
        labels[variables[j] + 1] = selection_row[j]

find_matching_blocks(ks, bs, selection) ==
    IF LabelsSize(selection) = 0
    THEN Ok([i \in 1..Len(bs) |-> i - 1])
    ELSE IF LabelsCount(selection) /= 1
    THEN InvalidParameter("single_row", <<>>, <<LabelsCount(selection)>>, <<>>)
    ELSE IF FirstUnknown(ks, selection) /= 0
    THEN InvalidParameter("not_in_keys",
             <<<<LabelsNames(selection)[FirstUnknown(ks, selection)]>>>>,
             <<>>, <<>>)
    ELSE LET variables == [j \in 1..LabelsSize(selection) |->
                              KeyColumn(ks, LabelsNames(selection)[j])]
             selection_row == LabelsIter(selection)[1]
             rows == [i \in 1..LabelsCount(ks) |-> i - 1]
         IN  Ok(SelectSeq(rows, LAMBDA block_i :
                    Selected(LabelsIter(ks)[block_i + 1], variables, selection_row)))

(***************************************************************************)
(* TensorMap::blocks_matching and TensorMap::block                         *)
(***************************************************************************)
\* the result keeps `matching`, the local of the function, beside the blocks
blocks_matching(ks, bs, selection) ==
    LET matching == find_matching_blocks(ks, bs, selection)
    IN  IF IsErr(matching) THEN matching
        ELSE [status |-> "Ok", matching |-> matching.value,
              value |-> [k \in 1..Len(matching.value) |-> bs[matching.value[k] + 1]]]

Panic == [status |-> "panic"]

\* selection.names().iter().zip(&selection[0]) formatted as "name = value"
SelectionStr(selection) ==
    [j \in 1..Min(LabelsSize(selection), Len(LabelsIndex(selection, 0))) |->
        [name |-> LabelsNames(selection)[j], value |-> LabelsIndex(selection, 0)[j]]]

block(ks, bs, selection) ==
    LET matching == find_matching_blocks(ks, bs, selection)
    IN  IF IsErr(matching) THEN matching
        ELSE IF Len(matching.value) /= 1
        THEN IF LabelsIndexPanics(selection, 0) THEN Panic
             ELSE InvalidParameter("blocks_matched", SelectionStr(selection),
                      <<Len(matching.value)>>, <<>>)
        ELSE Ok(bs[matching.value[1] + 1])

(***************************************************************************)
(* TensorBlock::components_to_properties, the block-level move.  Its code  *)
(* is not part of tensor/mod.rs; it is modelled from section 4.4 of the    *)
(* specification: the named columns leave the component tables, a table    *)
(* left without columns leaves the components list, and the distinct moved *)
(* values become the leading columns of the properties.  It fails, with    *)
(* the block untouched, when a name is in no component table.  Dropping a  *)
(* table left without columns is the reading of section 9; section 4.4     *)
(* also lets the move fail there.  Under both readings whether the move    *)
(* fails depends on the label names of the block alone.                    *)
(***************************************************************************)
Range(s) == {s[i] : i \in 1..Len(s)}

RECURSIVE Distinct(_)
Distinct(s) ==
    IF s = <<>> THEN <<>>
    ELSE LET front == Distinct(SubSeq(s, 1, Len(s) - 1))
         IN  IF s[Len(s)] \in Range(front) THEN front
             ELSE Append(front, s[Len(s)])

\* the rows of a table restricted to the columns `keep`, an increasing
\* sequence of column positions, without repeated rows
Project(labels, keep) ==
    [names |-> [k \in 1..Len(keep) |-> labels.names[keep[k]]],
     rows |-> Distinct([r \in 1..Len(labels.rows) |->
                  [k \in 1..Len(keep) |-> labels.rows[r][keep[k]]]])]

Columns(labels, wanted) ==
    SelectSeq([c \in 1..Len(labels.names) |-> c],
              LAMBDA c : wanted[labels.names[c]])

Product(outer, inner) ==
    [names |-> outer.names \o inner.names,
     rows |-> [k \in 1..(Len(outer.rows) * Len(inner.rows)) |->
                  outer.rows[((k - 1) \div Len(inner.rows)) + 1]
                      \o inner.rows[((k - 1) % Len(inner.rows)) + 1]]]

HasComponent(basic, variable) ==
    \E i \in 1..Len(basic.components) :
        variable \in Range(LabelsNames(basic.components[i]))

\* one column leaves the first component table that has it
MoveColumn(basic, variable) ==
    LET axis == CHOOSE i \in 1..Len(basic.components) :
                    /\ variable \in Range(LabelsNames(basic.components[i]))
                    /\ \A j \in 1..(i - 1) :
                           variable \notin Range(LabelsNames(basic.components[j]))
        table == basic.components[axis]
        moved == Project(table, Columns(table, [n \in Range(table.names) |-> n = variable]))
        left  == Project(table, Columns(table, [n \in Range(table.names) |-> n /= variable]))
        others == [i \in 1..Len(basic.components) |->
                      IF i = axis THEN left ELSE basic.components[i]]
    IN  [samples |-> basic.samples,
         components |-> SelectSeq(others, LAMBDA c : LabelsSize(c) > 0),
         properties |-> Product(moved, basic.properties)]

\* the columns move last to first, so that the variables lead the
\* properties in the order they were given
RECURSIVE MoveColumns(_, _)
MoveColumns(basic, variables) ==
    IF variables = <<>> THEN basic
    ELSE MoveColumn(MoveColumns(basic, Tail(variables)), Head(variables))

BasicBlocks(tensor_block) ==
    {tensor_block.values} \cup
        {tensor_block.gradients[p] : p \in DOMAIN tensor_block.gradients}

block_components_to_properties(tensor_block, variables) ==
    IF variables = <<>> THEN Ok(tensor_block)
    ELSE IF \E v \in Range(variables) : \E basic \in BasicBlocks(tensor_block) :
                ~HasComponent(basic, v)
    THEN InvalidParameter("not_in_components", <<variables>>, <<>>, <<>>)
    ELSE Ok([values |-> MoveColumns(tensor_block.values, variables),
             gradients |-> [p \in DOMAIN tensor_block.gradients |->
                               MoveColumns(tensor_block.gradients[p], variables)]])

(***************************************************************************)
(* TensorMap::components_to_properties: the blocks after the call, its     *)
(* result, and the 0-based positions of the blocks on which the            *)
(* block-level move was invoked, in order.                                 *)
(***************************************************************************)
RECURSIVE MoveBlocksFrom(_, _, _)
MoveBlocksFrom(bs, variables, i) ==
    IF i >= Len(bs) THEN [blocks |-> bs, result |-> Ok(<<>>), moves |-> <<>>]
    ELSE LET moved == block_components_to_properties(bs[i + 1], variables)
         IN  IF IsErr(moved)
             THEN [blocks |-> bs, result |-> moved, moves |-> <<i>>]
             ELSE LET rest == MoveBlocksFrom([bs EXCEPT ![i + 1] = moved.value],
                                             variables, i + 1)
                  IN  [rest EXCEPT !.moves = <<i>> \o @]

components_to_properties_no_return(bs, variables) ==
    MoveBlocksFrom(bs, variables, 0)

components_to_properties(bs, variables) ==
    IF variables = <<>>
    THEN [blocks |-> bs, result |-> Ok(<<>>), moves |-> <<>>]
    ELSE MoveBlocksFrom(bs, variables, 0)

(***************************************************************************)
(* The inputs.  The blocks of the validation runs differ from a base block *)
(* in the rows of their labels, in one or several label names of their     *)
(* values, or in their gradients.                                          *)
(***************************************************************************)
Basic(samples, components, properties) ==
    [samples |-> samples, components |-> components, properties |-> properties]

TensorBlock(values, gradients) == [values |-> values, gradients |-> gradients]

NoGradients == [p \in {} |-> Basic(EmptyLabels, <<>>, EmptyLabels)]

Values(s, components, q) ==
    Basic(example_labels(s, 1), components, example_labels(q, 1))

Gradient(s, components) ==
    Basic(example_labels(s, 1), components, example_labels("p", 1))

CD == <<example_labels("c", 1), example_labels("d", 2)>>

BaseValues == Values("s", CD, "p")

BlockSet ==
    {TensorBlock(BaseValues, NoGradients),
     \* other rows, same names
     TensorBlock(Basic(example_labels("s", 2),
                       <<example_labels("c", 3), example_labels("d", 1)>>,
                       example_labels("p", 1)), NoGradients),
     \* other names in the values
     TensorBlock(Values("t", CD, "p"), NoGradients),
     TensorBlock(Values("s", <<example_labels("c", 1)>>, "p"), NoGradients),
     TensorBlock(Values("s", <<example_labels("c", 1), example_labels("e", 1)>>, "p"),
                 NoGradients),
     TensorBlock(Values("s", CD, "q"), NoGradients),
     TensorBlock(Values("t", <<example_labels("d", 1), example_labels("c", 1)>>, "q"),
                 NoGradients),
     \* gradients
     TensorBlock(BaseValues, "g" :> Gradient("gs", CD)),
     TensorBlock(BaseValues, "g" :> Gradient("gt", CD)),
     TensorBlock(BaseValues, "g" :> Gradient("gs", <<example_labels("c", 1)>>)),
     TensorBlock(BaseValues, "h" :> Gradient("gs", CD)),
     TensorBlock(BaseValues, ("g" :> Gradient("gs", CD)) @@ ("h" :> Gradient("gs", CD))),
     TensorBlock(BaseValues,
         ("g" :> Gradient("gt", CD))
            @@ ("h" :> Gradient("gs", <<example_labels("e", 1), example_labels("d", 2)>>))),
     TensorBlock(Values("s", CD, "q"), "g" :> Gradient("gt", CD))}

SeqsUpTo(S, n) == UNION {[1..k -> S] : k \in 0..n}

DistinctSeqs(S, n) ==
    {s \in SeqsUpTo(S, n) : \A i, j \in 1..Len(s) : i /= j => s[i] /= s[j]}

Rows(size) == [1..size -> 0..MaxValue]

\* keys of the validation runs: one column, as in the tests
KeysOfCount == {example_labels("k1", n) : n \in 0..MaxBlocks}

WellFormed(labels) ==
    /\ \A i \in 1..Len(labels.rows) : Len(labels.rows[i]) = Len(labels.names)
    /\ \A i, j \in 1..Len(labels.rows) : i /= j => labels.rows[i] /= labels.rows[j]

\* keys of the selection runs: up to two columns, distinct rows
KeysSet ==
    UNION {{[names |-> SubSeq(<<"k1", "k2">>, 1, n), rows |-> rows] :
                rows \in DistinctSeqs(Rows(n), MaxKeys)} : n \in 0..2}

SelectionNames == DistinctSeqs({"k1", "k2", "z"}, 2)

\* no row, every single row, and one table of two rows; one single row is
\* enough for the two-column selections that name the column "z", which is
\* in no keys table
SelectionSet ==
    {sel \in
        {[names |-> names, rows |-> rows] :
            names \in SelectionNames,
            rows \in UNION {{<<>>} \cup {<<r>> : r \in Rows(n)}
                                \cup {<<[j \in 1..n |-> 0], [j \in 1..n |-> 1]>>} :
                            n \in 0..2}} :
        /\ WellFormed(sel)
        /\ (Len(sel.names) = 2 /\ "z" \in {sel.names[1], sel.names[2]}
                /\ Len(sel.rows) = 1) => sel.rows[1] = <<0, 1>>}

VariablesSet == {<<>>, <<"c">>, <<"d">>, <<"c", "d">>, <<"x">>}

FewVariables == {<<>>, <<"c">>}

\* the selection of the validation runs: the second key
SecondKey == [names |-> <<"k1">>, rows |-> <<<<1>>>>]

\* the blocks of the selection runs, told apart by their number of samples
SelectionBlock(i) ==
    TensorBlock(Basic(example_labels("s", i), <<>>, example_labels("p", 1)),
                NoGradients)

(***************************************************************************)
(* The state machine: the arguments of the constructor are chosen, the     *)
(* constructor runs once, then the methods of the TensorMap are called in  *)
(* any order.                                                              *)
(***************************************************************************)
NoCall == [op |-> "none", variables |-> <<>>]

Start ==
    /\ pc = "start"
    /\ keys = EmptyLabels
    /\ blocks = <<>>
    /\ call = NoCall
    /\ result = [status |-> "none"]
    /\ moves = <<>>

Init ==
    /\ args \in {[keys |-> ks, blocks |-> bs] :
                    ks \in KeysOfCount, bs \in SeqsUpTo(BlockSet, MaxBlocks)}
    /\ query = SecondKey
    /\ Start

InitSelection ==
    /\ args \in {[keys |-> ks,
                  blocks |-> [i \in 1..LabelsCount(ks) |-> SelectionBlock(i)]] :
                    ks \in KeysSet}
    /\ query \in SelectionSet
    /\ Start

CallNew ==
    /\ pc = "start"
    /\ \E r \in new(args.keys, args.blocks) :
        /\ result' = r
        /\ pc' = IF IsOk(r) THEN "built" ELSE "failed"
        /\ keys' = IF IsOk(r) THEN r.value.keys ELSE keys
        /\ blocks' = IF IsOk(r) THEN r.value.blocks ELSE blocks
    /\ call' = [NoCall EXCEPT !.op = "new"]
    /\ UNCHANGED <<args, query, moves>>

CallIter ==
    /\ pc = "built"
    /\ call' = [NoCall EXCEPT !.op = "iter"]
    /\ result' = Ok(iter(keys, blocks))
    /\ UNCHANGED <<pc, args, query, keys, blocks, moves>>

CallBlocksMatching ==
    /\ pc = "built"
    /\ call' = [NoCall EXCEPT !.op = "blocks_matching"]
    /\ result' = blocks_matching(keys, blocks, query)
    /\ UNCHANGED <<pc, args, query, keys, blocks, moves>>

CallBlock ==
    /\ pc = "built"
    /\ call' = [NoCall EXCEPT !.op = "block"]
    /\ result' = block(keys, blocks, query)
    /\ pc' = IF result'.status = "panic" THEN "panicked" ELSE pc
    /\ UNCHANGED <<args, query, keys, blocks, moves>>

CallComponentsToProperties(Variables) ==
    /\ pc = "built"
    /\ \E variables \in Variables :
        LET after == components_to_properties(blocks, variables)
        IN  /\ call' = [NoCall EXCEPT !.op = "components_to_properties",
                                      !.variables = variables]
            /\ blocks' = after.blocks
            /\ result' = after.result
            /\ moves' = after.moves
    /\ UNCHANGED <<pc, args, query, keys>>

Next ==
    \/ CallNew
    \/ CallIter
    \/ CallBlocksMatching
    \/ CallBlock
    \/ CallComponentsToProperties(VariablesSet)

NextSelection ==
    \/ CallNew
    \/ CallIter
    \/ CallBlocksMatching
    \/ CallBlock
    \/ CallComponentsToProperties(FewVariables)

Spec == Init /\ [][Next]_vars

SpecSelection == InitSelection /\ [][NextSelection]_vars

(***************************************************************************)
(* The schema of a tensor map, stated on the labels themselves.            *)
(***************************************************************************)
SameComponentNames(a, b) ==
    /\ Len(a.components) = Len(b.components)
    /\ \A c \in 1..Len(a.components) :
           a.components[c].names = b.components[c].names

\* invariants (2) to (5): block b has the schema of the block `first`
SameSchema(b, first) ==
    /\ b.values.samples.names = first.values.samples.names
    /\ SameComponentNames(b.values, first.values)
    /\ b.values.properties.names = first.values.properties.names
    /\ DOMAIN b.gradients = DOMAIN first.gradients
    /\ \A p \in DOMAIN b.gradients :
           /\ b.gradients[p].samples.names = first.gradients[p].samples.names
           /\ SameComponentNames(b.gradients[p], first.gradients[p])

SchemaInvariants(ks, bs) ==
    /\ Len(bs) = Len(ks.rows)
    /\ \A i \in 1..Len(bs) : SameSchema(bs[i], bs[1])

NewReturned == call.op = "new"

\* C1: whenever TensorMap::new returns Ok, the map it returns has as many
\* blocks as key rows, and every block has the sample names, the number and
\* names of component tables, the property names and the gradient
\* parameters of block 0, each gradient with the sample and component names
\* of block 0's gradient for the same parameter.
C1_ConstructorSoundness ==
    (NewReturned /\ IsOk(result)) =>
        SchemaInvariants(result.value.keys, result.value.blocks)

\* a map of two blocks or more with gradients was built
C1_Witness ==
    /\ NewReturned /\ IsOk(result)
    /\ Len(result.value.blocks) >= 2
    /\ DOMAIN result.value.blocks[2].gradients = {"g", "h"}

\* C2: for keys and blocks with as many blocks as key rows whose blocks agree
\* on all label names (rows may differ), TensorMap::new returns Ok, and the
\* map holds the given keys and the given blocks in the given order; the
\* empty list of blocks with empty keys included.
C2_ConstructorCompleteness ==
    (NewReturned /\ SchemaInvariants(args.keys, args.blocks)) =>
        /\ IsOk(result)
        /\ result.value.keys = args.keys
        /\ result.value.blocks = args.blocks
        /\ keys = args.keys
        /\ blocks = args.blocks

\* blocks with the same names and different rows were accepted
C2_Witness ==
    /\ NewReturned /\ IsOk(result)
    /\ Len(args.blocks) >= 2
    /\ Len(args.blocks[1].values.samples.rows)
            /= Len(args.blocks[2].values.samples.rows)
    /\ Len(args.blocks[1].values.components[1].rows)
            /= Len(args.blocks[2].values.components[1].rows)

(***************************************************************************)
(* The errors of the constructor, stated on its arguments.                 *)
(***************************************************************************)
GradientContext(p) == <<"for gradients with respect to", p>>

\* the name lists <<got, expected>> are those of a basic block `mine` and
\* of its counterpart in block 0, `theirs`, for the axis kind of the error
ReportsNamesOf(error, mine, theirs) ==
    \/ /\ error.kind = "sample_names"
       /\ error.names = <<mine.samples.names, theirs.samples.names>>
       /\ mine.samples.names /= theirs.samples.names
    \/ /\ error.kind = "component_names"
       /\ \E c \in 1..Min(Len(mine.components), Len(theirs.components)) :
            /\ error.names = <<mine.components[c].names, theirs.components[c].names>>
            /\ mine.components[c].names /= theirs.components[c].names
    \/ /\ error.kind = "property_names"
       /\ error.names = <<mine.properties.names, theirs.properties.names>>
       /\ mine.properties.names /= theirs.properties.names
    \/ /\ error.kind = "components_count"
       /\ error.counts = <<Len(mine.components), Len(theirs.components)>>
       /\ Len(mine.components) /= Len(theirs.components)

LabelKinds == {"sample_names", "component_names", "property_names", "components_count"}

\* C3: a rejection for a label-name mismatch names the axis kind and both
\* name lists, the offending block's first and block 0's second; a rejection
\* for the number of component tables reports the offending block's count,
\* then block 0's; a mismatch inside a gradient also carries the parameter.
C3_MismatchErrors ==
    (NewReturned /\ IsErr(result) /\ result.kind \in LabelKinds) =>
        /\ result.variant = "InvalidParameter"
        /\ \E i \in 2..Len(args.blocks) :
            \/ /\ result.context = <<>>
               /\ ReportsNamesOf(result, args.blocks[i].values,
                                 args.blocks[1].values)
            \/ \E p \in DOMAIN args.blocks[i].gradients
                            \cap DOMAIN args.blocks[1].gradients :
               /\ result.context = GradientContext(p)
               /\ ReportsNamesOf(result, args.blocks[i].gradients[p],
                                 args.blocks[1].gradients[p])
        \* the blocks agree on the names of their values: the mismatch is
        \* in a gradient, and the error says so
        /\ (\A i \in 1..Len(args.blocks) :
                /\ args.blocks[i].values.samples.names
                        = args.blocks[1].values.samples.names
                /\ SameComponentNames(args.blocks[i].values, args.blocks[1].values))
            => (result.kind = "property_names" \/ result.context /= <<>>)

\* a component-name mismatch inside a gradient was reported
C3_Witness ==
    /\ NewReturned /\ IsErr(result)
    /\ result.kind = "component_names"
    /\ result.context = GradientContext("h")
    /\ result.names = <<<<"e">>, <<"c">>>>

\* the first check, in the order of the code, that block b fails against
\* block 0; for a gradient, the checks one of its failing parameters can fail
FirstFailures(b, first) ==
    LET basic(mine, theirs) ==
            IF mine.samples.names /= theirs.samples.names THEN "sample_names"
            ELSE IF Len(mine.components) /= Len(theirs.components)
            THEN "components_count"
            ELSE IF ~SameComponentNames(mine, theirs) THEN "component_names"
            ELSE "none"
    IN  IF basic(b.values, first.values) /= "none"
        THEN {<<basic(b.values, first.values), <<>>>>}
        ELSE IF b.values.properties.names /= first.values.properties.names
        THEN {<<"property_names", <<>>>>}
        ELSE IF Cardinality(DOMAIN b.gradients) /= Cardinality(DOMAIN first.gradients)
        THEN {<<"gradients_count", <<>>>>}
        ELSE {<<"missing_gradient", <<>>>> :
                    p \in DOMAIN b.gradients \ DOMAIN first.gradients}
             \cup {<<basic(b.gradients[p], first.gradients[p]), GradientContext(p)>> :
                    p \in {q \in DOMAIN b.gradients \cap DOMAIN first.gradients :
                            basic(b.gradients[q], first.gradients[q]) /= "none"}}

Offending(bs) == {i \in 1..Len(bs) : ~SameSchema(bs[i], bs[1])}

\* the first component table whose names differ, for as many tables
FirstDiffering(mine, theirs) ==
    CHOOSE c \in 1..Len(mine.components) :
        /\ mine.components[c].names /= theirs.components[c].names
        /\ \A d \in 1..(c - 1) :
               mine.components[d].names = theirs.components[d].names

\* C9: the number of blocks is compared with the number of key rows before
\* any schema check; then the error returned is that of the offending block
\* of lowest index, and within that block that of the first failing check in
\* the order sample names, number of components, component names, property
\* names, number of gradients, gradients.
C9_FailFastOrder ==
    NewReturned =>
        IF Len(args.blocks) /= Len(args.keys.rows)
        THEN /\ IsErr(result)
             /\ result.kind = "blocks_count"
             /\ result.counts = <<Len(args.keys.rows), Len(args.blocks)>>
        ELSE IF Offending(args.blocks) = {} THEN IsOk(result)
        ELSE LET i == CHOOSE k \in Offending(args.blocks) :
                        \A j \in Offending(args.blocks) : k <= j
             IN  /\ IsErr(result)
                 /\ <<result.kind, result.context>>
                        \in FirstFailures(args.blocks[i], args.blocks[1])
                 /\ result.kind \in LabelKinds =>
                        LET mine == IF result.context = <<>>
                                    THEN args.blocks[i].values
                                    ELSE args.blocks[i].gradients[result.context[2]]
                            theirs == IF result.context = <<>>
                                      THEN args.blocks[1].values
                                      ELSE args.blocks[1].gradients[result.context[2]]
                        IN  /\ ReportsNamesOf(result, mine, theirs)
                            /\ result.kind = "component_names" =>
                                 result.names[1] =
                                    mine.components[FirstDiffering(mine, theirs)].names
                 /\ result.kind = "missing_gradient" =>
                        \E p \in DOMAIN args.blocks[i].gradients
                                    \ DOMAIN args.blocks[1].gradients :
                            result.names = <<<<p>>>>

\* two blocks offend in different ways, and the block of lowest index, which
\* fails several checks itself, is the one reported, by its first check
C9_Witness ==
    /\ NewReturned /\ IsErr(result)
    /\ Len(args.blocks) = 3
    /\ Offending(args.blocks) = {2, 3}
    /\ args.blocks[2].values.samples.names = <<"s">>
    /\ args.blocks[2].values.properties.names = <<"q">>
    /\ DOMAIN args.blocks[2].gradients = {"g"}
    /\ args.blocks[3].values.samples.names = <<"t">>
    /\ result.kind = "property_names"

(***************************************************************************)
(* The matcher, stated on the keys and the selection.                      *)
(***************************************************************************)
NamesOf(labels) == {labels.names[c] : c \in 1..Len(labels.names)}

\* the value of the column called `name` in the row at 0-based position i
ValueAt(labels, i, name) ==
    labels.rows[i + 1][CHOOSE c \in 1..Len(labels.names) : labels.names[c] = name]

\* the key rows that agree with the one row of the selection on every
\* selected column
MatchingRows(ks, selection) ==
    {i \in 0..(Len(ks.rows) - 1) :
        \A name \in NamesOf(selection) :
            ValueAt(ks, i, name) = ValueAt(selection, 0, name)}

Increasing(s) == \A i, j \in 1..Len(s) : i < j => s[i] < s[j]

\* C4: for a selection of one row whose columns are a subset of the key
\* columns, in any order, the matcher returns the positions of the key rows
\* that agree with the selection on every selected column, in increasing
\* order and once each, and blocks_matching the blocks at these positions;
\* a selection without columns selects every block, in order.
C4_PartialKeyMatching ==
    (call.op = "blocks_matching" /\ pc = "built") =>
        /\ (Len(query.rows) = 1 /\ NamesOf(query) \subseteq NamesOf(keys)) =>
            /\ IsOk(result)
            /\ Increasing(result.matching)
            /\ Range(result.matching) = MatchingRows(keys, query)
            /\ result.value = [k \in 1..Len(result.matching) |->
                                  blocks[result.matching[k] + 1]]
        /\ Len(query.names) = 0 =>
            /\ IsOk(result)
            /\ result.matching = [k \in 1..Len(blocks) |-> k - 1]
            /\ result.value = blocks

\* the selection names the two key columns in the other order, and selects
\* one of the rows only
C4_Witness ==
    /\ call.op = "blocks_matching" /\ IsOk(result)
    /\ query.names = <<"k2", "k1">>
    /\ keys.names = <<"k1", "k2">>
    /\ Len(keys.rows) = 2
    /\ result.matching = <<1>>
    /\ query.rows[1][1] /= query.rows[1][2]

\* C5: for a selection with columns, the matcher returns an error exactly
\* when the selection does not have one row or names a column that is not
\* a key column; the error for the number of rows reports it, the error for
\* an unknown column names the first one, and no positions are returned.
C5_SelectionValidation ==
    (call.op = "blocks_matching" /\ pc = "built" /\ Len(query.names) >= 1) =>
        LET unknown == {j \in 1..Len(query.names) :
                            query.names[j] \notin NamesOf(keys)}
        IN  /\ IsErr(result) <=> (Len(query.rows) /= 1 \/ unknown /= {})
            /\ IsErr(result) =>
                /\ result.variant = "InvalidParameter"
                /\ result.kind \in {"single_row", "not_in_keys"}
                /\ result.kind = "single_row" =>
                    /\ Len(query.rows) /= 1
                    /\ result.counts = <<Len(query.rows)>>
                /\ result.kind = "not_in_keys" =>
                    \E j \in unknown :
                        /\ \A k \in unknown : j <= k
                        /\ result.names = <<<<query.names[j]>>>>
                /\ "matching" \notin DOMAIN result
                /\ "value" \notin DOMAIN result

\* two columns of the selection are unknown, the first one is named
C5_Witness ==
    /\ call.op = "blocks_matching" /\ IsErr(result)
    /\ keys.names = <<"k1">>
    /\ query.names = <<"k2", "z">>
    /\ result.kind = "not_in_keys"
    /\ result.names = <<<<"k2">>>>

\* C6: block returns Ok with blocks[i] exactly when the matcher succeeds with
\* i as its only position; when the matcher succeeds with no position or
\* several, the selection without columns included, block returns an
\* InvalidParameter error with the number of matches and the selection as
\* name = value pairs: never a block, and never an abort.
C6_BlockSingleMatch ==
    (call.op = "block") =>
        LET matching == find_matching_blocks(keys, blocks, query)
        IN  /\ result.status /= "panic"
            /\ IsErr(matching) => result = matching
            /\ (IsOk(matching) /\ Len(matching.value) = 1) =>
                    result = Ok(blocks[matching.value[1] + 1])
            /\ (IsOk(matching) /\ Len(matching.value) /= 1) =>
                    /\ IsErr(result)
                    /\ result.variant = "InvalidParameter"
                    /\ result.kind = "blocks_matched"
                    /\ result.counts = <<Len(matching.value)>>
                    /\ result.names = [j \in 1..Len(query.names) |->
                                          [name |-> query.names[j],
                                           value |-> query.rows[1][j]]]

\* C6, for the selections that have a row: the claim holds of them
C6_WithARow ==
    (call.op = "block" /\ Len(query.rows) >= 1) => C6_BlockSingleMatch

\* several blocks match a selection of one column
C6_Witness ==
    /\ call.op = "block" /\ IsErr(result)
    /\ result.kind = "blocks_matched"
    /\ result.counts = <<2>>
    /\ Len(query.names) = 1

(***************************************************************************)
(* The in-place components_to_properties.                                  *)
(***************************************************************************)
\* C7: when components_to_properties returns an error, every block and the
\* keys are what they were before the call, the blocks before the one whose
\* block-level move failed included.
C7_FailureAtomicity ==
    [][(call'.op = "components_to_properties" /\ IsErr(result')) =>
            (blocks' = blocks /\ keys' = keys)]_vars

\* a call failed on a map of several blocks that an earlier call had moved
C7_Witness ==
    /\ call.op = "components_to_properties" /\ IsErr(result)
    /\ Len(blocks) >= 2
    /\ blocks /= args.blocks
    /\ call.variables = <<"c", "d">>

\* C8: components_to_properties with no variables returns success, leaves
\* the keys and every block as they were, gradients included, and invokes
\* the block-level move on no block.
C8_EmptyVariablesNoOp ==
    [][(call'.op = "components_to_properties" /\ call'.variables = <<>>) =>
            /\ IsOk(result')
            /\ blocks' = blocks
            /\ keys' = keys
            /\ moves' = <<>>]_vars

\* the call with no variables returned on a map of blocks with gradients
C8_Witness ==
    /\ call.op = "components_to_properties" /\ call.variables = <<>>
    /\ IsOk(result)
    /\ Len(blocks) >= 2
    /\ \A i \in 1..Len(blocks) : DOMAIN blocks[i].gradients /= {}

\* C10: in every state reached from a constructed map by calls of
\* blocks_matching, block, iter and components_to_properties, failed or not,
\* the keys are those of the construction and there are as many blocks as
\* key rows, so that iter pairs every key row with the block at its position.
C10_KeysAndBlocksAligned ==
    (pc \in {"built", "panicked"}) =>
        /\ keys = args.keys
        /\ Len(blocks) = Len(keys.rows)
        /\ call.op = "iter" =>
            /\ IsOk(result)
            /\ Len(result.value) = Len(keys.rows)
            /\ \A i \in 1..Len(keys.rows) :
                   result.value[i] = <<keys.rows[i], blocks[i]>>

\* iter ran on a map of several blocks that a call had moved
C10_Witness ==
    /\ call.op = "iter"
    /\ Len(blocks) >= 2
    /\ blocks /= args.blocks
    /\ Len(result.value) = Len(blocks)

====
